---- MODULE Spec2Model ----
(***************************************************************************)
(* A model of the Bubble schema extractor API.                             *)
(*                                                                         *)
(* The repository holds two server programs:                               *)
(*   - src/unnamed/part_000 : one shared browser (getBrowser), a bounded   *)
(*     availability poll inside the page, cleanFieldName, inline           *)
(*     references in the relational renderer;                              *)
(*   - src/api-server.js    : one browser per request, a separate          *)
(*     relationship block in the relational renderer.                      *)
(*                                                                         *)
(* Four specifications share the variables:                                *)
(*   NormSpec   : cleanFieldName on a raw field name, applied twice;       *)
(*   RenderSpec : the handler from the parsed raw type map to res.send;    *)
(*   Spec       : the server process, its browsers, pages and handlers;    *)
(*   PollSpec   : the availability poll that page.evaluate runs.           *)
(*                                                                         *)
(* JavaScript strings are TLA+ strings; Len, \o and SubSeq act on them     *)
(* character by character.                                                 *)
(***************************************************************************)
EXTENDS Integers, Sequences, FiniteSets, TLC

VARIABLES
    program,      \* which of the two server programs is running
    rawName,      \* NormSpec: the raw field name under normalization
    declType,     \* NormSpec: its declared type
    once,         \* NormSpec: cleanFieldName(rawName, declType)
    twice,        \* NormSpec: cleanFieldName(once, declType)
    npc,          \* NormSpec: position
    dataTypes,    \* RenderSpec: the raw type map handed to the renderers
    query,        \* RenderSpec: req.query.format, Undefined when absent
    fmt,          \* RenderSpec: format, after the default
    output,       \* RenderSpec: the rendered text
    contentType,  \* RenderSpec: the Content-Type of the response
    status,       \* RenderSpec: the status of the response, 0 before it
    rpc,          \* RenderSpec: position
    spc,          \* Spec: position of start() / the server process
    browser,      \* Spec: the module variable browser, 0 for null
    running,      \* Spec: the launched browsers that are connected
    nLaunched,    \* Spec: the number of puppeteer.launch calls that resolved
    openPages,    \* Spec: the open pages, each [id, browser]
    nPages,       \* Spec: the number of browser.newPage calls that resolved
    closeCalls,   \* Spec: the page.close() calls of this handler activation
    closeRejects, \* Spec: those of them that rejected
    pc,           \* Spec: the await each request handler is suspended at
    loc,          \* Spec: the handler's const browser, 0 before it is set
    page,         \* Spec: the handler's page variable, 0 for null
    opened,       \* Spec: the page this handler activation opened, 0 for none
    schemaData,   \* Spec: what page.evaluate resolved with
    resp,         \* Spec: the response sent, status 0 before it
    nResp,        \* Spec: the number of responses sent for the request
    threw,        \* Spec: whether the catch block ran
    attempts,     \* PollSpec: attempts of the availability poll
    appReady,     \* PollSpec: typeof app !== 'undefined' && app.user_types
    timerSet,     \* PollSpec: a setTimeout(check, 500) is pending
    pollResult,   \* PollSpec: what the promise resolved with
    nResolve,     \* PollSpec: the number of resolve() calls
    nUnavailable  \* PollSpec: the checks that found app.user_types unavailable

vars == <<program, rawName, declType, once, twice, npc,
          dataTypes, query, fmt, output, contentType, status, rpc,
          spc, browser, running, nLaunched, openPages, nPages, closeCalls,
          closeRejects, pc, loc, page, opened, schemaData, resp, nResp, threw,
          attempts, appReady, timerSet, pollResult, nResolve, nUnavailable>>

\* ------------------------------------------------------------------ strings

\* the value of a key that is not present in an object
Undefined == "<undefined>"

\* JavaScript's !x for a string-or-undefined x
Falsy(x) == x = Undefined \/ x = ""

\* String.prototype.indexOf: the first 0-based position of sub in s, or -1
IndexOf(s, sub) ==
    LET n == Len(s)
        m == Len(sub)
        hits == {i \in 0..(n - m) : SubSeq(s, i + 1, i + m) = sub}
    IN  IF hits = {} THEN -1
        ELSE CHOOSE i \in hits : \A j \in hits : i <= j

\* String.prototype.substring(0, k)
Substring0(s, k) == SubSeq(s, 1, k)

\* String.prototype.endsWith
EndsWith(s, suf) ==
    /\ Len(suf) <= Len(s)
    /\ SubSeq(s, Len(s) - Len(suf) + 1, Len(s)) = suf

\* fieldType.indexOf(prefix) === 0
StartsWith(s, pre) ==
    /\ Len(pre) <= Len(s)
    /\ SubSeq(s, 1, Len(pre)) = pre

\* String.prototype.replace(pattern, '') with a string pattern: the first
\* occurrence only
ReplaceFirst(s, pat, by) ==
    LET i == IndexOf(s, pat)
    IN  IF i = -1 THEN s
        ELSE SubSeq(s, 1, i) \o by \o SubSeq(s, i + Len(pat) + 1, Len(s))

\* whether sub occurs in s
Contains(s, sub) == IndexOf(s, sub) # -1

\* ------------------------------------------------------ name normalization

\* the typeSuffixes table of cleanFieldName; Undefined for a missing key
typeSuffixes(fieldType) ==
    CASE fieldType = "text"    -> "_text"
      [] fieldType = "number"  -> "_number"
      [] fieldType = "date"    -> "_date"
      [] fieldType = "boolean" -> "_boolean"
      [] fieldType = "file"    -> "_file"
      [] fieldType = "image"   -> "_image"
      [] OTHER                 -> Undefined

\* String.prototype.lastIndexOf
LastIndexOf(s, sub) ==
    LET n == Len(s)
        m == Len(sub)
        hits == {i \in 0..(n - m) : SubSeq(s, i + 1, i + m) = sub}
    IN  IF hits = {} THEN -1
        ELSE CHOOSE i \in hits : \A j \in hits : i >= j

\* TruncateAt with lastIndexOf in place of indexOf
TruncateAtLast(cleanName, marker) ==
    LET idx == LastIndexOf(cleanName, marker)
    IN  IF idx # -1 THEN Substring0(cleanName, idx) ELSE cleanName

\* one "remove marker and everything after it" step
TruncateAt(cleanName, marker) ==
    LET idx == IndexOf(cleanName, marker)
    IN  IF idx # -1 THEN Substring0(cleanName, idx) ELSE cleanName

\* the type-suffix strip at the end of cleanFieldName
StripSuffix(cleanName, fieldType) ==
    LET suffix == typeSuffixes(fieldType)
    IN  IF ~Falsy(suffix) /\ EndsWith(cleanName, suffix)
        THEN SubSeq(cleanName, 1, Len(cleanName) - Len(suffix))
        ELSE cleanName

cleanFieldName(fieldName, fieldType) ==
    IF Falsy(fieldType) \/ Falsy(fieldName) THEN fieldName
    ELSE LET c1 == TruncateAt(fieldName, "_option")
             c2 == TruncateAt(c1, "_custom")
             c3 == TruncateAt(c2, "_geographic")
         IN  StripSuffix(c3, fieldType)

\* --------------------------------------------------------- raw type maps
\* A raw type map (an object) is the sequence of its entries in key order:
\*   table == [name, hasF3, f3]       f3: the entries of tableInfo['%f3']
\*   field == [name, v, del]          v: '%v' or Undefined; del: '%del' as
\*                                    "true", "false" or Undefined (no key)

\* JavaScript's truthiness of a '%del' value
Truthy(del) == del = "true"

\* tableInfo['%f3'] || {}
FieldsOf(tableInfo) == IF tableInfo.hasF3 THEN tableInfo.f3 ELSE <<>>

\* ------------------------------------- relational renderer (part_000)

\* DBType with the number row of api-server.js's table
DBTypeInt(fieldType) ==
    IF fieldType = "number" THEN "int"
    ELSE IF fieldType = "date" THEN "timestamp"
    ELSE IF fieldType = "boolean" THEN "boolean"
    ELSE "text"

\* the scalar type table of convertToDBML
DBType(fieldType) ==
    IF fieldType = "number" THEN "numeric"
    ELSE IF fieldType = "date" THEN "timestamp"
    ELSE IF fieldType = "boolean" THEN "boolean"
    ELSE "text"

\* DBMLFieldLine without the '%del' test
DBMLFieldLineKeepDeleted(field) ==
    IF Falsy(field.v) THEN ""
    ELSE LET fieldType == field.v
             cleanName == cleanFieldName(field.name, fieldType)
         IN  IF StartsWith(fieldType, "custom.")
             THEN "  " \o cleanName \o " text [ref: > "
                  \o ReplaceFirst(fieldType, "custom.", "") \o "._id]\n"
             ELSE IF fieldType = "user"
             THEN "  " \o cleanName \o " text [ref: > user._id]\n"
             ELSE IF StartsWith(fieldType, "list.")
             THEN ""
             ELSE "  " \o cleanName \o " " \o DBType(fieldType) \o "\n"

\* the body of the field loop of convertToDBML: the text one field appends
DBMLFieldLine(field) ==
    IF Truthy(field.del) THEN ""
    ELSE IF Falsy(field.v) THEN ""
    ELSE LET fieldType == field.v
             cleanName == cleanFieldName(field.name, fieldType)
         IN  IF StartsWith(fieldType, "custom.")
             THEN "  " \o cleanName \o " text [ref: > "
                  \o ReplaceFirst(fieldType, "custom.", "") \o "._id]\n"
             ELSE IF fieldType = "user"
             THEN "  " \o cleanName \o " text [ref: > user._id]\n"
             ELSE IF StartsWith(fieldType, "list.")
             THEN ""
             ELSE "  " \o cleanName \o " " \o DBType(fieldType) \o "\n"

RECURSIVE DBMLFields(_)
DBMLFields(fields) ==
    IF fields = <<>> THEN ""
    ELSE DBMLFieldLine(Head(fields)) \o DBMLFields(Tail(fields))

\* the body of the table loop of convertToDBML
DBMLTable(tableInfo) ==
    "Table " \o tableInfo.name \o " {\n"
    \o "  _id text [pk]\n"
    \o "  Created_Date timestamp\n"
    \o "  Modified_Date timestamp\n"
    \o DBMLFields(FieldsOf(tableInfo))
    \o "}\n\n"

RECURSIVE DBMLTables(_)
DBMLTables(tables) ==
    IF tables = <<>> THEN ""
    ELSE DBMLTable(Head(tables)) \o DBMLTables(Tail(tables))

convertToDBML(types) == "// Bubble App Database Schema\n\n" \o DBMLTables(types)

\* ---------------------------------------- diagram renderer (part_000)

\* the scalar type table of convertToMermaid (the same in both programs)
MermaidType(fieldType) ==
    IF fieldType = "number" THEN "int"
    ELSE IF fieldType = "date" THEN "date"
    ELSE IF fieldType = "boolean" THEN "bool"
    ELSE "string"

\* the body of the field loop of convertToMermaid
MermaidFieldLine(field) ==
    IF Truthy(field.del) THEN ""
    ELSE IF Falsy(field.v) THEN ""
    ELSE "    " \o MermaidType(field.v) \o " "
         \o cleanFieldName(field.name, field.v) \o "\n"

RECURSIVE MermaidFields(_)
MermaidFields(fields) ==
    IF fields = <<>> THEN ""
    ELSE MermaidFieldLine(Head(fields)) \o MermaidFields(Tail(fields))

MermaidTable(tableInfo) ==
    "  " \o tableInfo.name \o " {\n"
    \o MermaidFields(FieldsOf(tableInfo))
    \o "  }\n"

RECURSIVE MermaidTables(_)
MermaidTables(tables) ==
    IF tables = <<>> THEN ""
    ELSE MermaidTable(Head(tables)) \o MermaidTables(Tail(tables))

convertToMermaid(types) == "erDiagram\n" \o MermaidTables(types)

\* ------------------------------------ relational renderer (api-server.js)

LegacyDBType(fieldType) ==
    IF fieldType = "number" THEN "int"
    ELSE IF fieldType = "date" THEN "timestamp"
    ELSE IF fieldType = "boolean" THEN "boolean"
    ELSE "text"

\* fieldName.replace(/_custom_.*$/, '_id')
LegacyCustomName(fieldName) ==
    LET i == IndexOf(fieldName, "_custom_")
    IN  IF i = -1 THEN fieldName ELSE SubSeq(fieldName, 1, i) \o "_id"

\* the column line one field appends in api-server.js's convertToDBML
LegacyDBMLFieldLine(field) ==
    IF Truthy(field.del) THEN ""
    ELSE IF Falsy(field.v) THEN ""
    ELSE LET fieldType == field.v
         IN  IF StartsWith(fieldType, "custom.")
             THEN "  " \o LegacyCustomName(field.name) \o " text\n"
             ELSE IF fieldType = "user"
             THEN "  " \o field.name \o "_id" \o " text\n"
             ELSE IF StartsWith(fieldType, "list.")
             THEN ""
             ELSE "  " \o field.name \o " " \o LegacyDBType(fieldType) \o "\n"

\* the statement one field pushes on relationships, "" for none
LegacyRefLine(tableName, field) ==
    IF Truthy(field.del) THEN ""
    ELSE IF Falsy(field.v) THEN ""
    ELSE LET fieldType == field.v
         IN  IF StartsWith(fieldType, "custom.")
             THEN "Ref: " \o tableName \o "." \o LegacyCustomName(field.name)
                  \o " > " \o ReplaceFirst(fieldType, "custom.", "") \o ".id" \o "\n"
             ELSE IF fieldType = "user"
             THEN "Ref: " \o tableName \o "." \o field.name \o "_id"
                  \o " > user.id" \o "\n"
             ELSE ""

RECURSIVE LegacyDBMLFields(_)
LegacyDBMLFields(fields) ==
    IF fields = <<>> THEN ""
    ELSE LegacyDBMLFieldLine(Head(fields)) \o LegacyDBMLFields(Tail(fields))

RECURSIVE LegacyRefs(_, _)
LegacyRefs(tableName, fields) ==
    IF fields = <<>> THEN ""
    ELSE LegacyRefLine(tableName, Head(fields)) \o LegacyRefs(tableName, Tail(fields))

LegacyDBMLTable(tableInfo) ==
    "Table " \o tableInfo.name \o " {\n"
    \o "  id text [primary key]\n"
    \o "  Created_Date timestamp\n"
    \o "  Modified_Date timestamp\n"
    \o LegacyDBMLFields(FieldsOf(tableInfo))
    \o "}\n\n"

RECURSIVE LegacyDBMLTables(_)
LegacyDBMLTables(tables) ==
    IF tables = <<>> THEN ""
    ELSE LegacyDBMLTable(Head(tables)) \o LegacyDBMLTables(Tail(tables))

\* the relationships array, joined as the final loop joins it
RECURSIVE LegacyRelationships(_)
LegacyRelationships(tables) ==
    IF tables = <<>> THEN ""
    ELSE LegacyRefs(Head(tables).name, FieldsOf(Head(tables)))
         \o LegacyRelationships(Tail(tables))

LegacyConvertToDBML(types) == LegacyDBMLTables(types) \o LegacyRelationships(types)

\* ------------------------------------- diagram renderer (api-server.js)

LegacyMermaidFieldLine(field) ==
    IF Truthy(field.del) THEN ""
    ELSE IF Falsy(field.v) THEN ""
    ELSE "    " \o MermaidType(field.v) \o " " \o field.name \o "\n"

RECURSIVE LegacyMermaidFields(_)
LegacyMermaidFields(fields) ==
    IF fields = <<>> THEN ""
    ELSE LegacyMermaidFieldLine(Head(fields)) \o LegacyMermaidFields(Tail(fields))

LegacyMermaidTable(tableInfo) ==
    "  " \o tableInfo.name \o " {\n"
    \o LegacyMermaidFields(FieldsOf(tableInfo))
    \o "  }\n"

RECURSIVE LegacyMermaidTables(_)
LegacyMermaidTables(tables) ==
    IF tables = <<>> THEN ""
    ELSE LegacyMermaidTable(Head(tables)) \o LegacyMermaidTables(Tail(tables))

LegacyConvertToMermaid(types) == "erDiagram\n" \o LegacyMermaidTables(types)

\* ------------------------------------------------------------ raw renderer
\* JSON.stringify(dataTypes, null, 2): keys in insertion order, two spaces
\* of indentation per level, "{}" for an empty object.

Quote(s) == "\"" \o s \o "\""

\* the members of one field object, each on a line of its own
JSONFieldMembers(field, ind) ==
    LET vLine == IF field.v = Undefined THEN ""
                 ELSE ind \o Quote("%v") \o ": " \o Quote(field.v)
        dLine == IF field.del = Undefined THEN ""
                 ELSE ind \o Quote("%del") \o ": " \o field.del
    IN  IF vLine = "" THEN dLine
        ELSE IF dLine = "" THEN vLine
        ELSE vLine \o ",\n" \o dLine

JSONField(field, ind) ==
    LET members == JSONFieldMembers(field, ind \o "  ")
    IN  Quote(field.name) \o ": "
        \o (IF members = "" THEN "{}" ELSE "{\n" \o members \o "\n" \o ind \o "}")

RECURSIVE JSONFields(_, _)
JSONFields(fields, ind) ==
    IF fields = <<>> THEN ""
    ELSE ind \o JSONField(Head(fields), ind)
         \o (IF Tail(fields) = <<>> THEN "" ELSE ",\n" \o JSONFields(Tail(fields), ind))

JSONTable(tableInfo, ind) ==
    Quote(tableInfo.name) \o ": "
    \o (IF ~tableInfo.hasF3 THEN "{}"
        ELSE "{\n" \o ind \o "  " \o Quote("%f3") \o ": "
             \o (IF tableInfo.f3 = <<>> THEN "{}"
                 ELSE "{\n" \o JSONFields(tableInfo.f3, ind \o "    ")
                      \o "\n" \o ind \o "  }")
             \o "\n" \o ind \o "}")

RECURSIVE JSONTables(_, _)
JSONTables(tables, ind) ==
    IF tables = <<>> THEN ""
    ELSE ind \o JSONTable(Head(tables), ind)
         \o (IF Tail(tables) = <<>> THEN "" ELSE ",\n" \o JSONTables(Tail(tables), ind))

Stringify(types) ==
    IF types = <<>> THEN "{}" ELSE "{\n" \o JSONTables(types, "  ") \o "\n}"

\* ------------------------------------------------------- format selection

Programs == {"part_000", "api-server"}

\* const format = req.query.format || 'dbml'
Format(q) == IF Falsy(q) THEN "dbml" ELSE q

\* SelectRenderer with the raw renderer as the fallback branch
SelectRendererJsonDefault(format) ==
    IF format = "mermaid" THEN "mermaid"
    ELSE IF format = "dbml" THEN "dbml"
    ELSE "json"

\* the if / else if / else over format in the request handler
SelectRenderer(format) ==
    IF format = "mermaid" THEN "mermaid"
    ELSE IF format = "json" THEN "json"
    ELSE "dbml"

\* output, as the selected branch computes it in program prog
Render(prog, renderer, types) ==
    IF renderer = "mermaid"
    THEN (IF prog = "part_000" THEN convertToMermaid(types)
          ELSE LegacyConvertToMermaid(types))
    ELSE IF renderer = "json" THEN Stringify(types)
    ELSE (IF prog = "part_000" THEN convertToDBML(types)
          ELSE LegacyConvertToDBML(types))

\* contentType, as the selected branch sets it
ContentTypeOf(renderer) ==
    IF renderer = "json" THEN "application/json"
    ELSE "text/plain; charset=utf-8"

\* ------------------------------------------------------------------ inputs

MaxParts  == 3   \* fragments in a raw field name (NormSpec)
MaxTables == 1   \* types in a raw type map
MaxFields == 2   \* fields in a raw type map, all types together

\* raw field names are built from these pieces
Fragments == {"a", "_text", "_date", "_option", "_custom", "_geographic"}

RECURSIVE NamesOfParts(_)
NamesOfParts(n) ==
    IF n = 0 THEN {""}
    ELSE {p \o f : p \in NamesOfParts(n - 1), f \in Fragments}

Names == UNION {NamesOfParts(n) : n \in 1..MaxParts}

\* declared types: the vocabulary, a type with no suffix entry, and none
NormTypes == {"text", "date", "number", "user", "custom.User", "list.text", Undefined}

\* the declared types of the fields of a raw type map
TypePool == {"text", "number", "date", "boolean", "user", "custom.User",
             "list.text", Undefined}

\* the declared types of the fields that carry a '%del' key
DelTypes == {"text", "custom.User", "list.text"}

FieldNames == {"title_text", "owner_custom_x"}

FieldInfos ==
    {[v |-> t, del |-> Undefined] : t \in TypePool}
    \cup {[v |-> t, del |-> "true"] : t \in DelTypes}
    \cup {[v |-> "custom.User", del |-> "false"]}

Fields == {[name |-> n, v |-> i.v, del |-> i.del] : n \in FieldNames, i \in FieldInfos}

TableNameAt(i) == <<"Task", "User", "Team", "Tag">>[i]

\* the number of fields of a raw type map
RECURSIVE FieldCount(_)
FieldCount(types) ==
    IF types = <<>> THEN 0
    ELSE Len(FieldsOf(Head(types))) + FieldCount(Tail(types))

FormatTokens == {Undefined, "dbml", "mermaid", "json", "xml"}

\* ---------------------------------------------------------------- NormSpec
\* cleanFieldName applied to a raw name, and applied again to its result.

NormIdle ==
    /\ rawName = "" /\ declType = Undefined
    /\ once = "" /\ twice = "" /\ npc = "off"

RenderIdle ==
    /\ dataTypes = <<>> /\ query = Undefined /\ fmt = ""
    /\ output = "" /\ contentType = "" /\ status = 0 /\ rpc = "off"

NormVars == <<rawName, declType, once, twice, npc>>
RenderVars == <<dataTypes, query, fmt, output, contentType, status, rpc>>
ServerVars == <<spc, browser, running, nLaunched, openPages, nPages, closeCalls,
                closeRejects, pc, loc, page, opened, schemaData, resp, nResp, threw>>
PollVars == <<attempts, appReady, timerSet, pollResult, nResolve, nUnavailable>>

\* the request handler activations that may be in flight together
Requests == {"r1", "r2"}

NoResponse == [status |-> 0, renderer |-> "none", body |-> ""]

ServerIdle ==
    /\ spc = "off" /\ browser = 0 /\ running = {} /\ nLaunched = 0
    /\ openPages = {} /\ nPages = 0
    /\ closeCalls = [r \in Requests |-> 0]
    /\ closeRejects = [r \in Requests |-> 0]
    /\ pc = [r \in Requests |-> "idle"]
    /\ loc = [r \in Requests |-> 0]
    /\ page = [r \in Requests |-> 0]
    /\ opened = [r \in Requests |-> 0]
    /\ schemaData = [r \in Requests |-> "none"]
    /\ resp = [r \in Requests |-> NoResponse]
    /\ nResp = [r \in Requests |-> 0]
    /\ threw = [r \in Requests |-> FALSE]

PollIdle ==
    /\ attempts = 0 /\ appReady = FALSE /\ timerSet = FALSE
    /\ pollResult = "off" /\ nResolve = 0 /\ nUnavailable = 0

NormInit ==
    /\ program = "part_000"
    /\ rawName \in Names
    /\ declType \in NormTypes
    /\ once = "" /\ twice = "" /\ npc = "start"
    /\ RenderIdle /\ ServerIdle /\ PollIdle

NormalizeOnce ==
    /\ npc = "start"
    /\ once' = cleanFieldName(rawName, declType)
    /\ npc' = "once"
    /\ UNCHANGED <<program, rawName, declType, twice, RenderVars, ServerVars,
                   PollVars>>

NormalizeAgain ==
    /\ npc = "once"
    /\ twice' = cleanFieldName(once, declType)
    /\ npc' = "done"
    /\ UNCHANGED <<program, rawName, declType, once, RenderVars, ServerVars,
                   PollVars>>

NormNext == NormalizeOnce \/ NormalizeAgain

NormSpec == NormInit /\ [][NormNext]_vars

\* -------------------------------------------------------------- RenderSpec
\* The request handler from JSON.parse(schemaData) to res.send(output), on a
\* raw type map the session step obtained.

RenderInit ==
    /\ program \in Programs
    /\ dataTypes = <<>>
    /\ query = Undefined /\ fmt = ""
    /\ output = "" /\ contentType = "" /\ status = 0
    /\ rpc = "schema"
    /\ NormIdle /\ ServerIdle /\ PollIdle

\* the remote application declares one more type, with or without a field map
AppDeclaresType(h) ==
    /\ rpc = "schema"
    /\ Len(dataTypes) < MaxTables
    /\ dataTypes' = Append(dataTypes,
                           [name |-> TableNameAt(Len(dataTypes) + 1),
                            hasF3 |-> h, f3 |-> <<>>])
    /\ UNCHANGED <<program, query, fmt, output, contentType, status, rpc,
                   NormVars, ServerVars, PollVars>>

\* the remote application declares one more field on its last type
AppDeclaresField(f) ==
    /\ rpc = "schema"
    /\ dataTypes # <<>>
    /\ FieldCount(dataTypes) < MaxFields
    /\ LET n == Len(dataTypes)
           t == dataTypes[n]
       IN  /\ t.hasF3
           /\ \A i \in 1..Len(t.f3) : t.f3[i].name # f.name
           /\ dataTypes' = [dataTypes EXCEPT ![n].f3 = Append(t.f3, f)]
    /\ UNCHANGED <<program, query, fmt, output, contentType, status, rpc,
                   NormVars, ServerVars, PollVars>>

SendSchema(q) ==
    /\ rpc = "schema"
    /\ query' = q
    /\ fmt' = Format(q)
    /\ output' = Render(program, SelectRenderer(Format(q)), dataTypes)
    /\ contentType' = ContentTypeOf(SelectRenderer(Format(q)))
    /\ status' = 200
    /\ rpc' = "sent"
    /\ UNCHANGED <<program, dataTypes, NormVars, ServerVars, PollVars>>

RenderNext ==
    \/ \E h \in BOOLEAN : AppDeclaresType(h)
    \/ \E f \in Fields : AppDeclaresField(f)
    \/ \E q \in FormatTokens : SendSchema(q)

RenderSpec == RenderInit /\ [][RenderNext]_vars

\* -------------------------------------------------------------------- Spec
\* The server process and its request handlers. A handler runs from one
\* await to the next in one step; pc[r] names the await it is suspended at.
\* Browsers and pages belong to puppeteer: a launch, a newPage, a goto, an
\* evaluate or a close may reject, and a connected browser may disconnect.

MaxLaunches == 3   \* puppeteer.launch calls that resolve
MaxPages    == 2   \* browser.newPage calls that resolve

\* what page.evaluate can resolve with: null, the JSON text of a raw type
\* map, or the JSON text of a map a renderer fails on (a null field entry)
SchemaKinds == {"null", "map", "bad"}

SampleMap ==
    <<[name |-> "Task", hasF3 |-> TRUE,
       f3 |-> <<[name |-> "title_text", v |-> "text", del |-> Undefined],
                [name |-> "owner_custom_x", v |-> "custom.User", del |-> "false"],
                [name |-> "tags", v |-> "list.text", del |-> Undefined],
                [name |-> "temp_field", v |-> "text", del |-> "true"]>>]>>

BadMapJSON == "{\n  \"Task\": {\n    \"%f3\": {\n      \"x\": null\n    }\n  }\n}"

\* fieldInfo['%del'] on a null fieldInfo throws in both converters
RendererThrows(schema, renderer) == schema = "bad" /\ renderer # "json"

\* Outcome with the absence signal rendered like a schema
OutcomeNullAsSchema(schema, renderer) ==
    IF RendererThrows(schema, renderer) THEN 500 ELSE 200

\* the status the handler answers with once schemaData is there:
\* if (!schemaData) return res.status(404)...; otherwise parse, render and
\* send, or land in the catch block
Outcome(schema, renderer) ==
    IF schema = "null" THEN 404
    ELSE IF RendererThrows(schema, renderer) THEN 500
    ELSE 200

\* the response for schemaData and the format token q
Response(prog, schema, q) ==
    LET renderer == SelectRenderer(Format(q))
        st == Outcome(schema, renderer)
    IN  IF st = 200
        THEN [status |-> 200, renderer |-> renderer,
              body |-> IF schema = "bad" THEN BadMapJSON
                       ELSE Render(prog, renderer, SampleMap)]
        ELSE IF st = 404
        THEN [status |-> 404, renderer |-> "none", body |-> "No schema found"]
        ELSE [status |-> 500, renderer |-> renderer, body |-> "error"]

ErrorResponse == [status |-> 500, renderer |-> "none", body |-> "error"]

\* finally without the close
FinallyNeverCloses(p) == FALSE

\* finally { if (page) ... }
FinallyMustClose(p) == p # 0

\* whether page p is open
IsOpen(p) == \E e \in openPages : e.id = p

\* the open pages without page p
Without(p) == {e \in openPages : e.id # p}

\* the open pages after a page.close() on p that leaves it open (stays) or not
AfterClose(p, stays) == IF stays THEN openPages ELSE Without(p)

\* if (!browser || !browser.isConnected())
NeedsLaunch == browser = 0 \/ browser \notin running

Init ==
    /\ program \in Programs
    /\ spc = IF program = "part_000" THEN "prewarm" ELSE "listening"
    /\ browser = 0 /\ running = {} /\ nLaunched = 0
    /\ openPages = {} /\ nPages = 0
    /\ closeCalls = [r \in Requests |-> 0]
    /\ closeRejects = [r \in Requests |-> 0]
    /\ pc = [r \in Requests |-> "idle"]
    /\ loc = [r \in Requests |-> 0]
    /\ page = [r \in Requests |-> 0]
    /\ opened = [r \in Requests |-> 0]
    /\ schemaData = [r \in Requests |-> "none"]
    /\ resp = [r \in Requests |-> NoResponse]
    /\ nResp = [r \in Requests |-> 0]
    /\ threw = [r \in Requests |-> FALSE]
    /\ NormIdle /\ RenderIdle /\ PollIdle

Others == <<program, NormVars, RenderVars, PollVars>>

\* ---- start() of part_000

\* await getBrowser() in start(): the launch resolves, then app.listen
StartLaunchResolved ==
    /\ spc = "prewarm"
    /\ nLaunched < MaxLaunches
    /\ nLaunched' = nLaunched + 1
    /\ running' = running \cup {nLaunched + 1}
    /\ browser' = nLaunched + 1
    /\ spc' = "listening"
    /\ UNCHANGED <<openPages, nPages, closeCalls, closeRejects, pc, loc,
                   page, opened, schemaData, resp, nResp, threw, Others>>

\* the launch rejects: start().catch logs and calls process.exit(1)
StartLaunchFailed ==
    /\ spc = "prewarm"
    /\ spc' = "exited"
    /\ UNCHANGED <<browser, running, nLaunched, openPages, nPages,
                   closeCalls, closeRejects, pc, loc, page, opened,
                   schemaData, resp, nResp, threw, Others>>

\* ---- puppeteer

\* a connected browser disconnects (it crashes or is killed); its pages go
BrowserDisconnects(b) ==
    /\ b \in running
    /\ running' = running \ {b}
    /\ openPages' = {e \in openPages : e.browser # b}
    /\ UNCHANGED <<spc, browser, nLaunched, nPages, closeCalls, closeRejects,
                   pc, loc, page, opened, schemaData, resp, nResp, threw,
                   Others>>

\* ---- the catch and finally blocks of part_000's handler

\* catch (error) { res.status(500)... } finally { if (page) await page.close() }
\* for handler r suspended at an await that rejects
Caught(r) ==
    /\ resp' = [resp EXCEPT ![r] = ErrorResponse]
    /\ nResp' = [nResp EXCEPT ![r] = @ + 1]
    /\ threw' = [threw EXCEPT ![r] = TRUE]
    /\ pc' = [pc EXCEPT ![r] = IF FinallyMustClose(page[r]) THEN "finallyClose"
                               ELSE "done"]

\* ---- the request handler of part_000

\* the handler up to await getBrowser(): the URL is built and getBrowser
\* runs to its own await, or returns the shared browser
Receive(r) ==
    /\ program = "part_000" /\ spc = "listening"
    /\ pc[r] = "idle"
    /\ IF NeedsLaunch
       THEN /\ pc' = [pc EXCEPT ![r] = "launching"]
            /\ UNCHANGED loc
       ELSE /\ pc' = [pc EXCEPT ![r] = "newPage"]
            /\ loc' = [loc EXCEPT ![r] = browser]
    /\ UNCHANGED <<spc, browser, running, nLaunched, openPages, nPages,
                   closeCalls, closeRejects, page, opened, schemaData, resp,
                   nResp, threw, Others>>

\* decodeURIComponent(input) throws on a malformed escape
ReceiveMalformed(r) ==
    /\ program = "part_000" /\ spc = "listening"
    /\ pc[r] = "idle"
    /\ Caught(r)
    /\ UNCHANGED <<spc, browser, running, nLaunched, openPages, nPages,
                   closeCalls, closeRejects, loc, page, opened, schemaData,
                   Others>>

\* browser = await puppeteer.launch(...); return browser
LaunchResolved(r) ==
    /\ program = "part_000"
    /\ pc[r] = "launching"
    /\ nLaunched < MaxLaunches
    /\ nLaunched' = nLaunched + 1
    /\ running' = running \cup {nLaunched + 1}
    /\ browser' = nLaunched + 1
    /\ loc' = [loc EXCEPT ![r] = nLaunched + 1]
    /\ pc' = [pc EXCEPT ![r] = "newPage"]
    /\ UNCHANGED <<spc, openPages, nPages, closeCalls, closeRejects, page,
                   opened, schemaData, resp, nResp, threw, Others>>

\* page = await browser.newPage()
NewPageResolved(r) ==
    /\ program = "part_000"
    /\ pc[r] = "newPage"
    /\ loc[r] \in running
    /\ nPages < MaxPages
    /\ nPages' = nPages + 1
    /\ openPages' = openPages \cup {[id |-> nPages + 1, browser |-> loc[r]]}
    /\ page' = [page EXCEPT ![r] = nPages + 1]
    /\ opened' = [opened EXCEPT ![r] = nPages + 1]
    /\ pc' = [pc EXCEPT ![r] = "goto"]
    /\ UNCHANGED <<spc, browser, running, nLaunched, closeCalls,
                   closeRejects, loc, schemaData, resp, nResp, threw,
                   Others>>

\* await page.goto(appUrl, ...)
GotoResolved(r) ==
    /\ program = "part_000"
    /\ pc[r] = "goto"
    /\ IsOpen(page[r])
    /\ pc' = [pc EXCEPT ![r] = "evaluate"]
    /\ UNCHANGED <<spc, browser, running, nLaunched, openPages, nPages,
                   closeCalls, closeRejects, loc, page, opened, schemaData,
                   resp, nResp, threw, Others>>

\* const schemaData = await page.evaluate(...)
EvaluateResolved(r, kind) ==
    /\ program = "part_000"
    /\ pc[r] = "evaluate"
    /\ IsOpen(page[r])
    /\ schemaData' = [schemaData EXCEPT ![r] = kind]
    /\ pc' = [pc EXCEPT ![r] = "close"]
    /\ UNCHANGED <<spc, browser, running, nLaunched, openPages, nPages,
                   closeCalls, closeRejects, loc, page, opened, resp, nResp,
                   threw, Others>>

\* the launch, newPage, goto or evaluate the handler awaits rejects
AwaitRejected(r) ==
    /\ program = "part_000"
    /\ pc[r] \in {"launching", "newPage", "goto", "evaluate"}
    /\ Caught(r)
    /\ UNCHANGED <<spc, browser, running, nLaunched, openPages, nPages,
                   closeCalls, closeRejects, loc, page, opened, schemaData,
                   Others>>

\* await page.close() resolves; page = null; then the 404, or parse, render
\* and send, or the catch block; finally finds page null
CloseResolved(r, q) ==
    /\ program = "part_000"
    /\ pc[r] = "close"
    /\ IsOpen(page[r])
    /\ openPages' = Without(page[r])
    /\ closeCalls' = [closeCalls EXCEPT ![r] = @ + 1]
    /\ page' = [page EXCEPT ![r] = 0]
    /\ resp' = [resp EXCEPT ![r] = Response(program, schemaData[r], q)]
    /\ nResp' = [nResp EXCEPT ![r] = @ + 1]
    /\ threw' = [threw EXCEPT ![r] = Response(program, schemaData[r], q).status = 500]
    /\ pc' = [pc EXCEPT ![r] = "done"]
    /\ UNCHANGED <<spc, browser, running, nLaunched, nPages, closeRejects,
                   loc, opened, schemaData, Others>>

\* await page.close() rejects, the page left open (stays) or gone; page is
\* still set when the catch block and finally run
CloseRejected(r, stays) ==
    /\ program = "part_000"
    /\ pc[r] = "close"
    /\ stays => IsOpen(page[r])
    /\ openPages' = AfterClose(page[r], stays)
    /\ closeCalls' = [closeCalls EXCEPT ![r] = @ + 1]
    /\ closeRejects' = [closeRejects EXCEPT ![r] = @ + 1]
    /\ Caught(r)
    /\ UNCHANGED <<spc, browser, running, nLaunched, nPages, loc, page,
                   opened, schemaData, Others>>

\* finally: await page.close().catch(() => {}) settles; ok: it resolved;
\* otherwise it rejected with the page left open (stays) or gone
FinallyCloseSettled(r, ok, stays) ==
    /\ program = "part_000"
    /\ pc[r] = "finallyClose"
    /\ ok => (IsOpen(page[r]) /\ ~stays)
    /\ stays => IsOpen(page[r])
    /\ openPages' = AfterClose(page[r], stays)
    /\ closeCalls' = [closeCalls EXCEPT ![r] = @ + 1]
    /\ closeRejects' = [closeRejects EXCEPT ![r] = IF ok THEN @ ELSE @ + 1]
    /\ pc' = [pc EXCEPT ![r] = "done"]
    /\ UNCHANGED <<spc, browser, running, nLaunched, nPages, loc, page,
                   opened, schemaData, resp, nResp, threw, Others>>

\* the handler has returned; the next request is served
NextRequest(r) ==
    /\ pc[r] = "done"
    /\ pc' = [pc EXCEPT ![r] = "idle"]
    /\ loc' = [loc EXCEPT ![r] = 0]
    /\ page' = [page EXCEPT ![r] = 0]
    /\ opened' = [opened EXCEPT ![r] = 0]
    /\ schemaData' = [schemaData EXCEPT ![r] = "none"]
    /\ resp' = [resp EXCEPT ![r] = NoResponse]
    /\ nResp' = [nResp EXCEPT ![r] = 0]
    /\ threw' = [threw EXCEPT ![r] = FALSE]
    /\ closeCalls' = [closeCalls EXCEPT ![r] = 0]
    /\ closeRejects' = [closeRejects EXCEPT ![r] = 0]
    /\ UNCHANGED <<spc, browser, running, nLaunched, openPages, nPages,
                   Others>>

\* ---- the request handler of api-server.js: a browser per request, no
\* finally block

\* catch (error) { res.status(500).json(...) }
LegacyCaught(r) ==
    /\ resp' = [resp EXCEPT ![r] = ErrorResponse]
    /\ nResp' = [nResp EXCEPT ![r] = @ + 1]
    /\ threw' = [threw EXCEPT ![r] = TRUE]
    /\ pc' = [pc EXCEPT ![r] = "done"]

\* the handler up to the await inside puppeteer.launch({...})
LegacyReceive(r) ==
    /\ program = "api-server" /\ spc = "listening"
    /\ pc[r] = "idle"
    /\ pc' = [pc EXCEPT ![r] = "launching"]
    /\ UNCHANGED <<spc, browser, running, nLaunched, openPages, nPages,
                   closeCalls, closeRejects, loc, page, opened, schemaData,
                   resp, nResp, threw, Others>>

\* decodeURIComponent(input) throws on a malformed escape
LegacyReceiveMalformed(r) ==
    /\ program = "api-server" /\ spc = "listening"
    /\ pc[r] = "idle"
    /\ LegacyCaught(r)
    /\ UNCHANGED <<spc, browser, running, nLaunched, openPages, nPages,
                   closeCalls, closeRejects, loc, page, opened, schemaData,
                   Others>>

\* const browser = await puppeteer.launch(...)
LegacyLaunchResolved(r) ==
    /\ program = "api-server"
    /\ pc[r] = "launching"
    /\ nLaunched < MaxLaunches
    /\ nLaunched' = nLaunched + 1
    /\ running' = running \cup {nLaunched + 1}
    /\ loc' = [loc EXCEPT ![r] = nLaunched + 1]
    /\ pc' = [pc EXCEPT ![r] = "newPage"]
    /\ UNCHANGED <<spc, browser, openPages, nPages, closeCalls, closeRejects,
                   page, opened, schemaData, resp, nResp, threw, Others>>

\* const page = await browser.newPage()
LegacyNewPageResolved(r) ==
    /\ program = "api-server"
    /\ pc[r] = "newPage"
    /\ loc[r] \in running
    /\ nPages < MaxPages
    /\ nPages' = nPages + 1
    /\ openPages' = openPages \cup {[id |-> nPages + 1, browser |-> loc[r]]}
    /\ page' = [page EXCEPT ![r] = nPages + 1]
    /\ opened' = [opened EXCEPT ![r] = nPages + 1]
    /\ pc' = [pc EXCEPT ![r] = "goto"]
    /\ UNCHANGED <<spc, browser, running, nLaunched, closeCalls,
                   closeRejects, loc, schemaData, resp, nResp, threw,
                   Others>>

\* await page.goto(appUrl, ...)
LegacyGotoResolved(r) ==
    /\ program = "api-server"
    /\ pc[r] = "goto"
    /\ IsOpen(page[r])
    /\ pc' = [pc EXCEPT ![r] = "wait"]
    /\ UNCHANGED <<spc, browser, running, nLaunched, openPages, nPages,
                   closeCalls, closeRejects, loc, page, opened, schemaData,
                   resp, nResp, threw, Others>>

\* await wait(3000)
LegacyWaitDone(r) ==
    /\ program = "api-server"
    /\ pc[r] = "wait"
    /\ pc' = [pc EXCEPT ![r] = "evaluate"]
    /\ UNCHANGED <<spc, browser, running, nLaunched, openPages, nPages,
                   closeCalls, closeRejects, loc, page, opened, schemaData,
                   resp, nResp, threw, Others>>

\* const schemaData = await page.evaluate(...): one look at app.user_types
LegacyEvaluateResolved(r, kind) ==
    /\ program = "api-server"
    /\ pc[r] = "evaluate"
    /\ IsOpen(page[r])
    /\ schemaData' = [schemaData EXCEPT ![r] = kind]
    /\ pc' = [pc EXCEPT ![r] = "close"]
    /\ UNCHANGED <<spc, browser, running, nLaunched, openPages, nPages,
                   closeCalls, closeRejects, loc, page, opened, resp, nResp,
                   threw, Others>>

\* the launch, newPage, goto, evaluate or browser.close the handler awaits
\* rejects
LegacyAwaitRejected(r) ==
    /\ program = "api-server"
    /\ pc[r] \in {"launching", "newPage", "goto", "evaluate", "close"}
    /\ LegacyCaught(r)
    /\ UNCHANGED <<spc, browser, running, nLaunched, openPages, nPages,
                   closeCalls, closeRejects, loc, page, opened, schemaData,
                   Others>>

\* await browser.close() resolves; then the 404, or parse, render and send,
\* or the catch block
LegacyBrowserClosed(r, q) ==
    /\ program = "api-server"
    /\ pc[r] = "close"
    /\ loc[r] \in running
    /\ running' = running \ {loc[r]}
    /\ openPages' = {e \in openPages : e.browser # loc[r]}
    /\ resp' = [resp EXCEPT ![r] = Response(program, schemaData[r], q)]
    /\ nResp' = [nResp EXCEPT ![r] = @ + 1]
    /\ threw' = [threw EXCEPT ![r] = Response(program, schemaData[r], q).status = 500]
    /\ pc' = [pc EXCEPT ![r] = "done"]
    /\ UNCHANGED <<spc, browser, nLaunched, nPages, closeCalls, closeRejects,
                   loc, page, opened, schemaData, Others>>

Next ==
    \/ StartLaunchResolved
    \/ StartLaunchFailed
    \/ \E b \in 1..MaxLaunches : BrowserDisconnects(b)
    \/ \E r \in Requests :
        \/ Receive(r)
        \/ ReceiveMalformed(r)
        \/ LaunchResolved(r)
        \/ NewPageResolved(r)
        \/ GotoResolved(r)
        \/ \E kind \in SchemaKinds : EvaluateResolved(r, kind)
        \/ AwaitRejected(r)
        \/ \E q \in FormatTokens : CloseResolved(r, q)
        \/ \E stays \in BOOLEAN : CloseRejected(r, stays)
        \/ \E ok, stays \in BOOLEAN : FinallyCloseSettled(r, ok, stays)
        \/ NextRequest(r)
        \/ LegacyReceive(r)
        \/ LegacyReceiveMalformed(r)
        \/ LegacyLaunchResolved(r)
        \/ LegacyNewPageResolved(r)
        \/ LegacyGotoResolved(r)
        \/ LegacyWaitDone(r)
        \/ \E kind \in SchemaKinds : LegacyEvaluateResolved(r, kind)
        \/ LegacyAwaitRejected(r)
        \/ \E q \in FormatTokens : LegacyBrowserClosed(r, q)

Spec == Init /\ [][Next]_vars

\* ---------------------------------------------------------------- PollSpec
\* The function page.evaluate runs in the page: check() is called once, and
\* again from each setTimeout(check, 500) it schedules. The remote
\* application may define or lose app.user_types at any time.

maxAttempts == 30

\* else if (attempts >= maxAttempts), with attempts already incremented
GiveUpAfterLast(n) == n > maxAttempts

GiveUp(n) == n >= maxAttempts

\* one call of check()
Check ==
    /\ attempts' = attempts + 1
    /\ IF appReady
       THEN /\ nResolve' = nResolve + 1
            /\ pollResult' = IF pollResult = "pending" THEN "data" ELSE pollResult
            /\ timerSet' = FALSE
            /\ UNCHANGED nUnavailable
       ELSE /\ nUnavailable' = nUnavailable + 1
            /\ IF GiveUp(attempts + 1)
               THEN /\ nResolve' = nResolve + 1
                    /\ pollResult' = IF pollResult = "pending" THEN "null" ELSE pollResult
                    /\ timerSet' = FALSE
               ELSE /\ timerSet' = TRUE
                    /\ UNCHANGED <<nResolve, pollResult>>

PollInit ==
    /\ program = "part_000"
    /\ attempts = 0 /\ appReady \in BOOLEAN /\ timerSet = FALSE
    /\ pollResult = "pending" /\ nResolve = 0 /\ nUnavailable = 0
    /\ NormIdle /\ RenderIdle /\ ServerIdle

\* new Promise(...): the executor runs check() at once
StartPoll ==
    /\ pollResult = "pending" /\ attempts = 0 /\ ~timerSet
    /\ Check
    /\ UNCHANGED <<program, appReady, NormVars, RenderVars, ServerVars>>

\* a pending setTimeout(check, 500) fires
TimerFires ==
    /\ timerSet
    /\ Check
    /\ UNCHANGED <<program, appReady, NormVars, RenderVars, ServerVars>>

\* the remote application defines app.user_types, or loses it
AppChanges ==
    /\ pollResult # "off"
    /\ appReady' = ~appReady
    /\ UNCHANGED <<program, attempts, timerSet, pollResult, nResolve,
                   nUnavailable, NormVars, RenderVars, ServerVars>>

PollNext == StartPoll \/ TimerFires \/ AppChanges

\* the executor runs synchronously and the page's timers fire
PollSpec ==
    /\ PollInit /\ [][PollNext]_vars
    /\ WF_vars(StartPoll) /\ WF_vars(TimerFires)

\* ================================================================= claims

\* the fields of the raw type map, each with the name of its type
AllFields ==
    UNION {{[table |-> dataTypes[i].name, field |-> FieldsOf(dataTypes[i])[j]] :
              j \in 1..Len(FieldsOf(dataTypes[i]))} : i \in 1..Len(dataTypes)}

\* a raw type map without the fields that satisfy Drop
WithoutFields(types, Drop(_)) ==
    LET Keep(f) == ~Drop(f)
    IN  [i \in 1..Len(types) |-> [types[i] EXCEPT !.f3 = SelectSeq(types[i].f3, Keep)]]

IsDeleted(field) == Truthy(field.del)
IsLiveList(field) ==
    ~Truthy(field.del) /\ ~Falsy(field.v) /\ StartsWith(field.v, "list.")

\* the number of line breaks in a text
LineCount(text) == Cardinality({i \in 1..Len(text) : SubSeq(text, i, i) = "\n"})

Sent == rpc = "sent"
Renderer == SelectRenderer(fmt)

\* ---- C1
\* C1 as stated: whatever the format token, the name of a field whose '%del'
\* flag is true occurs nowhere in the rendered output.
C1_DeletedNameInNoOutput ==
    Sent => \A e \in AllFields :
                IsDeleted(e.field) => ~Contains(output, e.field.name)

\* C1 amended: a deleted field contributes nothing to the relational and the
\* diagram renderer (their output is the output for the map without the
\* deleted fields); the raw renderer serializes the map unmodified, so there
\* the deleted field's key does occur.
C1_DeletedFieldContributesNothing ==
    Sent =>
      /\ Renderer \in {"dbml", "mermaid"} =>
            output = Render(program, Renderer, WithoutFields(dataTypes, IsDeleted))
      /\ Renderer = "json" =>
            \A e \in AllFields :
                IsDeleted(e.field) => Contains(output, Quote(e.field.name) \o ": {")

C1_Witness ==
    /\ Sent
    /\ Renderer = "dbml"
    /\ \E e \in AllFields : IsDeleted(e.field) /\ e.field.v = "text"
    /\ \E e \in AllFields : ~IsDeleted(e.field) /\ e.field.v = "text"

\* ---- C2
\* C2: a non-deleted field whose declared type starts with 'list.' adds no
\* column and no relationship to the relational and the diagram renderer:
\* their output is the output for the map without the list fields.
C2_ListFieldContributesNothing ==
    (Sent /\ Renderer \in {"dbml", "mermaid"}) =>
        output = Render(program, Renderer, WithoutFields(dataTypes, IsLiveList))

\* ---- C3
\* C3 as stated: a second application of cleanFieldName changes nothing.
C3_Idempotent == npc = "done" => twice = once

\* C3 amended: the normalized name holds no qualifier marker, and a second
\* application changes it only by stripping one further type suffix, which
\* happens exactly when the normalized name still ends in that suffix.
C3_IdempotentUpToRepeatedSuffix ==
    npc = "done" =>
      /\ (~Falsy(declType) /\ rawName # "") =>
            \A marker \in {"_option", "_custom", "_geographic"} :
                ~Contains(once, marker)
      /\ LET suffix == typeSuffixes(declType)
         IN  IF suffix # Undefined /\ EndsWith(once, suffix)
             THEN once = twice \o suffix
             ELSE twice = once

C3_Witness ==
    /\ npc = "done"
    /\ declType = "text"
    /\ Contains(rawName, "_option")
    /\ EndsWith(once, "_text")
    /\ twice # once

\* ---- C4
\* C4: for a non-empty raw name the normalized name is non-empty.
C4_NormalizedNameNonEmpty ==
    (npc \in {"once", "done"} /\ rawName # "") => once # ""

\* ---- C5
\* C5: 'mermaid' selects the diagram renderer, 'json' the raw renderer, and
\* every other token (absent, 'dbml', 'xml') the relational renderer; the
\* response is a successful one in every case.
C5_SelectionTotal ==
    Sent =>
      /\ status = 200
      /\ query = "mermaid" =>
            /\ output = Render(program, "mermaid", dataTypes)
            /\ contentType = "text/plain; charset=utf-8"
      /\ query = "json" =>
            /\ output = Stringify(dataTypes)
            /\ contentType = "application/json"
      /\ query \notin {"mermaid", "json"} =>
            /\ output = Render(program, "dbml", dataTypes)
            /\ contentType = "text/plain; charset=utf-8"

C5_Witness ==
    /\ Sent
    /\ query = "xml"
    /\ program = "part_000"
    /\ FieldCount(dataTypes) > 0
    /\ output = convertToDBML(dataTypes)
    /\ status = 200

\* ---- C7
\* the column line C7 states for a surviving field that is not a list
C7_Line(field) ==
    LET name == cleanFieldName(field.name, field.v)
    IN  IF StartsWith(field.v, "custom.")
        THEN "  " \o name \o " text [ref: > "
             \o SubSeq(field.v, Len("custom.") + 1, Len(field.v)) \o "._id]\n"
        ELSE IF field.v = "user"
        THEN "  " \o name \o " text [ref: > user._id]\n"
        ELSE "  " \o name \o " "
             \o (CASE field.v = "number" -> "numeric"
                   [] field.v = "date" -> "timestamp"
                   [] field.v = "boolean" -> "boolean"
                   [] OTHER -> "text")
             \o "\n"

Surviving(field) == ~Truthy(field.del) /\ ~Falsy(field.v)
YieldsLine(field) == Surviving(field) /\ ~StartsWith(field.v, "list.")

\* the line breaks of the output that no declared field accounts for: the
\* header comment of part_000 and, per type, the opening line, the three
\* implicit columns, the closing brace and the empty line after it
FixedLines == (IF program = "part_000" THEN 2 ELSE 0) + 6 * Len(dataTypes)

C7_Classified ==
    /\ \A e \in AllFields : YieldsLine(e.field) => Contains(output, C7_Line(e.field))
    /\ LineCount(output) =
          FixedLines + Cardinality({e \in AllFields : YieldsLine(e.field)})
    /\ ~Contains(output, "Ref:")

C6_OutcomesDistinguished ==
    \A r \in Requests :
      /\ nResp[r] <= 1
      /\ pc[r] \in {"done", "finallyClose"} => nResp[r] = 1
      /\ pc[r] \notin {"done", "finallyClose"} => nResp[r] = 0
      /\ resp[r].status \in {0, 200, 404, 500}
      /\ (resp[r].status = 0) = (nResp[r] = 0)
      /\ resp[r].status = 404 =>
            /\ schemaData[r] = "null"
            /\ resp[r].renderer = "none"
            /\ ~threw[r]
      /\ resp[r].status = 200 =>
            /\ schemaData[r] \in {"map", "bad"}
            /\ resp[r].renderer \in {"dbml", "mermaid", "json"}
            /\ resp[r].body \notin {"", "error", "No schema found"}
            /\ ~threw[r]
      /\ (resp[r].status = 500) = threw[r]
      /\ (pc[r] = "done" /\ schemaData[r] = "null" /\ ~threw[r]) =>
            resp[r].status = 404

C6_Witness ==
    \E r1, r2 \in Requests :
      /\ pc[r1] = "done" /\ resp[r1].status = 404 /\ schemaData[r1] = "null"
      /\ pc[r2] = "done" /\ resp[r2].status = 500 /\ schemaData[r2] = "map"

\* ---- C8
\* C8 as stated: in the shared-browser handler a page opened by a request
\* is closed when its handler has finished, whatever the path, and no page
\* is open once every handler has finished.
C8_AllPagesClosed ==
    program = "part_000" =>
      /\ \A r \in Requests :
            (pc[r] = "done" /\ opened[r] # 0) => ~IsOpen(opened[r])
      /\ (\A r \in Requests : pc[r] \in {"idle", "done"}) => openPages = {}

\* C8 amended: by the time its handler finishes, page.close() has been
\* called on every page the request opened, on every path; the page is
\* still open then only if every one of those calls rejected.
C8_PagesCloseAttempted ==
    program = "part_000" =>
      \A r \in Requests :
        (pc[r] = "done" /\ opened[r] # 0) =>
          /\ closeCalls[r] >= 1
          /\ IsOpen(opened[r]) => closeRejects[r] = closeCalls[r]

C8_Witness ==
    /\ program = "part_000"
    /\ \E r \in Requests :
          /\ pc[r] = "done" /\ opened[r] # 0 /\ threw[r]
          /\ schemaData[r] = "none"
          /\ closeCalls[r] = 1 /\ closeRejects[r] = 0
          /\ ~IsOpen(opened[r])

\* ---- C10
\* C10: in the shared-browser program every launched browser that is
\* still running is the one the shared variable holds.
C10_SingleSharedBrowser ==
    program = "part_000" => \A b \in running : b = browser

\* ---- C9
PollSafe ==
    /\ attempts <= maxAttempts
    /\ nResolve <= 1
    /\ (nResolve = 1) = (pollResult \in {"data", "null"})
    /\ pollResult # "pending" => ~timerSet
    /\ pollResult = "data" => nUnavailable = attempts - 1
    /\ pollResult = "null" => (attempts = maxAttempts /\ nUnavailable = maxAttempts)
    /\ pollResult = "pending" => nUnavailable = attempts

\* C9: the poll resolves after at most 30 checks: with the type map at the
\* first check that finds app.user_types available, with null only when all
\* 30 checks found it unavailable; it resolves once and schedules no check
\* after resolving; and it does resolve.
C9_PollTerminates == []PollSafe /\ <>(pollResult \in {"data", "null"})

C9_Witness == pollResult = "null" /\ attempts = maxAttempts /\ nResolve = 1

====
